---- MODULE Spec2Model ----
(***************************************************************************)
(* Multi-scale scheduling and calendar engine of the construction Gantt    *)
(* chart: the task store (useStore.ts), the chart rows with their direct   *)
(* start/end inputs (ChartCalendar / TaskList), the scale selector, the    *)
(* drag gestures of a task bar (TaskBar.tsx) and the working-day rules     *)
(* (holidays.ts).                                                          *)
(***************************************************************************)
EXTENDS Integers, Sequences, FiniteSets, TLC

VARIABLES
    project,          \* the current Project record of the store (optional keys absent until set)
    projects,         \* useStore.projects: sequence of Project records
    tasks,            \* useStore.tasks: sequence of Task records
    nextId,           \* number of ids handed out so far (uuidv4 never repeats)
    isDragging,       \* TaskBar state of the bar holding the gesture
    dragType,         \* 'move' | 'resize-start' | 'resize-end' | null
    dragStartValues,  \* interval captured at mouse-down, or null
    dragTaskId,       \* id of the task whose TaskBar holds the gesture state
    lastOp,           \* history: the handler that ran last and its input
    steps,            \* history: number of handlers run so far
    calSettings,      \* WorkdaySettings handed to the calendar functions
    calCall           \* history: last calendar call, its arguments and result

vars == <<project, projects, tasks, nextId, isDragging, dragType, dragStartValues,
          dragTaskId, lastOp, steps, calSettings, calCall>>

chartVars == <<project, projects, tasks, nextId, isDragging, dragType, dragStartValues,
               dragTaskId, lastOp, steps>>

calVars == <<calSettings, calCall>>

-----------------------------------------------------------------------------
(* Bounds of the model *)

MaxTasks == 3          \* ids handed out by addTask
MaxSteps == 5          \* handlers run in one behaviour
MaxCellIndex == 7      \* largest grid cell the pointer reaches
MaxTyped == 8          \* largest number typed into a day field
MaxTypedHour == 19     \* largest number typed into an hour field
MaxDate == 8           \* calendar days are numbered 0..MaxDate, day 0 = Monday 2024-01-01
MaxWorkdays == 3       \* largest number of working days added to a date
MaxHour == 24          \* largest hour of an hour window handed to the grid
MaxWindow == 7         \* largest window length handed to the grid
MaxAnchor == 29        \* latest anchor day handed to the grid (2024-01-30)
MaxStored == 500       \* largest value held by a schedule handed to getScaleValue
MaxCellWidth == 32     \* widest grid cell in pixels (the day scale of ChartCalendar)
MaxMonthWindow == 35   \* longest window handed to the month grouping
MaxLoopDay == 30       \* last calendar day the stepwise addWorkdays loop may reach
MaxIds == 4            \* ids handed out by the store to projects and tasks

-----------------------------------------------------------------------------
(* Types and defaults (types/index.ts) *)

ViewScale == {"hour", "day", "week", "month"}

DEFAULT_HOUR_SCALE_SETTINGS == [startHour |-> 8, endHour |-> 18]

DEFAULT_DAY_SCALE_SETTINGS == [dayCount |-> 7, weekCount |-> 30, monthCount |-> 60]

DEFAULT_SCALE_SCHEDULE ==
    [hour  |-> [start |-> 480, end |-> 540],
     day   |-> [start |-> 1,   end |-> 3],
     week  |-> [start |-> 1,   end |-> 7],
     month |-> [start |-> 1,   end |-> 14]]

null == [null |-> TRUE]

Max(a, b) == IF a >= b THEN a ELSE b

Min(a, b) == IF a <= b THEN a ELSE b

\* { ...r, ...u }
Spread(r, u) == [k \in DOMAIN r \cup DOMAIN u |-> IF k \in DOMAIN u THEN u[k] ELSE r[k]]

\* the rounding left out
RoundTo5_NoRounding(m) == m

\* Math.round(m / 5) * 5 for an integer m (Math.round is floor(x + 0.5))
RoundTo5(m) == ((2 * m + 5) \div 10) * 5

\* x || d for a number x: 0 and NaN are both falsy; a typed 0 stands for both
OrDefault(x, d) == IF x = 0 THEN d ELSE x

-----------------------------------------------------------------------------
(* Scale selector option lists (ScaleSelector.tsx), truncated to the        *)
(* options the model offers.                                               *)

hourOptions == {8, 9, 18}

dayCountOptions == {3, 7}

weekCountOptions == {7, 30}

monthCountOptions == {30, 60}

-----------------------------------------------------------------------------
(* Inputs *)

CellIndexes == {-3, 0, 3, 5, MaxCellIndex}

TypedValues == {0, 3, MaxTyped}

TypedHours == {0, 9, MaxTypedHour}

TypedMinutes == {-3, 7, 58}

\* cell widths the geometry is computed for: the narrowest cell, the widths of
\* the month, week and hour scales, and the widest cell
CellWidths == {1, 14, 20, 24, MaxCellWidth}

-----------------------------------------------------------------------------
(* Project settings as the chart components read them *)

hourSettings == IF "hourScaleSettings" \in DOMAIN project
                THEN project.hourScaleSettings ELSE DEFAULT_HOUR_SCALE_SETTINGS

daySettings == IF "dayScaleSettings" \in DOMAIN project
               THEN project.dayScaleSettings ELSE DEFAULT_DAY_SCALE_SETTINGS

startMinutes == hourSettings.startHour * 60

endMinutes == hourSettings.endHour * 60

getMinValue == IF project.viewScale = "hour" THEN startMinutes ELSE 1

getMaxValue ==
    CASE project.viewScale = "hour"  -> endMinutes
      [] project.viewScale = "day"   -> daySettings.dayCount
      [] project.viewScale = "week"  -> daySettings.weekCount
      [] project.viewScale = "month" -> daySettings.monthCount

\* task.scaleSchedule || DEFAULT_SCALE_SCHEDULE
ScheduleOf(task) == IF "scaleSchedule" \in DOMAIN task
                    THEN task.scaleSchedule ELSE DEFAULT_SCALE_SCHEDULE

\* schedule[scale] is an entry: the key is there and does not hold null
HasEntry(schedule, scale) == scale \in DOMAIN schedule /\ schedule[scale] # null

\* entry?.[field] is a number: the entry is there and holds the field
HasField(schedule, scale, field) ==
    HasEntry(schedule, scale) /\ field \in DOMAIN schedule[scale]

\* schedule[scale]?.[field] ?? DEFAULT_SCALE_SCHEDULE[scale][field]
ScaleValue(task, scale, field) ==
    LET schedule == ScheduleOf(task)
    IN IF HasField(schedule, scale, field)
       THEN schedule[scale][field]
       ELSE DEFAULT_SCALE_SCHEDULE[scale][field]

\* getScaleValue of both fields, for an explicit scale
Resolve(task, scale) == [start |-> ScaleValue(task, scale, "start"),
                         end   |-> ScaleValue(task, scale, "end")]

getScaleValue(task, field) == ScaleValue(task, project.viewScale, field)

\* { ...r, [k]: v }
SetKey(r, k, v) == [x \in DOMAIN r \cup {k} |-> IF x = k THEN v ELSE r[x]]

\* { ...schedule[scale] }: spreading undefined or null adds nothing
EntryOf(schedule, scale) == IF HasEntry(schedule, scale) THEN schedule[scale] ELSE <<>>

-----------------------------------------------------------------------------
(* Store operations (useStore.ts) *)

TaskIndex(id) == CHOOSE i \in 1 .. Len(tasks) : tasks[i].id = id

TaskIds == {tasks[i].id : i \in 1 .. Len(tasks)}

TaskById(id) == tasks[TaskIndex(id)]

\* the task data spread into every task
updateTask_EveryTask(ts, id, taskData) ==
    [i \in 1 .. Len(ts) |-> Spread(ts[i], taskData)]

\* updateTask(id, taskData)
updateTask(ts, id, taskData) ==
    [i \in 1 .. Len(ts) |-> IF ts[i].id = id THEN Spread(ts[i], taskData) ELSE ts[i]]

\* deleteTask(id)
deleteTask(ts, id) == SelectSeq(ts, LAMBDA t : t.id # id)

\* updateProject(id, projectData) on the current project
updateProject(projectData) == Spread(project, projectData)

\* projects.map of updateProject: the changed record replaces the stored one
ProjectStored ==
    projects' = [i \in 1 .. Len(projects) |->
                    IF projects[i].id = project.id THEN project' ELSE projects[i]]

-----------------------------------------------------------------------------
(* History *)

Op(name, id, field, value) == [op |-> name, id |-> id, field |-> field, value |-> value]

Step(op) == /\ steps < MaxSteps
            /\ steps' = steps + 1
            /\ lastOp' = op

dragVars == <<isDragging, dragType, dragStartValues, dragTaskId>>


-----------------------------------------------------------------------------
(* Chart rows (ChartCalendar / TaskList) *)

RECURSIVE SortByOrder(_)
\* [...tasks].sort((a, b) => a.order - b.order): a stable sort
SortByOrder(ts) ==
    IF ts = <<>> THEN <<>>
    ELSE LET rest == SortByOrder(SubSeq(ts, 1, Len(ts) - 1))
             t == ts[Len(ts)]
             k == Cardinality({i \in 1 .. Len(rest) : rest[i].order <= t.order})
         IN SubSeq(rest, 1, k) \o <<t>> \o SubSeq(rest, k + 1, Len(rest))

\* the tasks prop of ChartCalendar and projectTasks of TaskList
projectTasks == SortByOrder(SelectSeq(tasks, LAMBDA t : t.projectId = project.id))

\* the value added to the stored one
newScheduleOf_Relative(task, field, value) ==
    LET currentSchedule == ScheduleOf(task)
        scale == project.viewScale
    IN SetKey(currentSchedule, scale,
              SetKey(EntryOf(currentSchedule, scale), field,
                     ScaleValue(task, scale, field) + value))

\* the entry of the scale built anew instead of spread
newScheduleOf_FreshEntry(task, field, value) ==
    LET currentSchedule == ScheduleOf(task)
        scale == project.viewScale
    IN SetKey(currentSchedule, scale, SetKey(<<>>, field, value))

\* newSchedule of updateScaleValue (ChartCalendar / TaskList)
newScheduleOf(task, field, value) ==
    LET currentSchedule == ScheduleOf(task)
        scale == project.viewScale
    IN SetKey(currentSchedule, scale,
              SetKey(EntryOf(currentSchedule, scale), field, value))

\* updateScaleValue of ChartCalendar and TaskList: stores the value as given
updateScaleValue(task, field, value) ==
    updateTask(tasks, task.id, [scaleSchedule |-> newScheduleOf(task, field, value)])

minutesToHoursAndMinutes(minutes) == [hours |-> minutes \div 60, minutes |-> minutes % 60]

hoursAndMinutesToMinutes(hours, minutes) == hours * 60 + RoundTo5(minutes)

\* onChange of the hour input of a start/end cell (hour scale)
HourInputValue(task, field, typed) ==
    LET hm == minutesToHoursAndMinutes(getScaleValue(task, field))
        h == OrDefault(typed, hourSettings.startHour)
        clampedH == Max(hourSettings.startHour, Min(hourSettings.endHour, h))
        newMinutes == hoursAndMinutesToMinutes(clampedH, hm.minutes)
    IN Max(startMinutes, Min(endMinutes, newMinutes))

\* onChange of the minute input of a start/end cell (hour scale)
MinuteInputValue(task, field, typed) ==
    LET hm == minutesToHoursAndMinutes(getScaleValue(task, field))
        m == OrDefault(typed, 0)
        roundedM == RoundTo5(m)
        clampedM == Max(0, Min(55, roundedM))
        newMinutes == hoursAndMinutesToMinutes(hm.hours, clampedM)
    IN Max(startMinutes, Min(endMinutes, newMinutes))

\* onChange of the number input of a start/end cell (day, week, month scale)
DayInputValue(typed) ==
    LET value == OrDefault(typed, getMinValue)
    IN Max(getMinValue, Min(OrDefault(getMaxValue, 999), value))

EditHourInput(id, field, typed) ==
    /\ id \in TaskIds
    /\ project.viewScale = "hour"
    /\ tasks' = updateScaleValue(TaskById(id), field, HourInputValue(TaskById(id), field, typed))
    /\ Step(Op("editHour", id, field, typed))
    /\ UNCHANGED <<project, projects, nextId, dragVars, calVars>>

EditMinuteInput(id, field, typed) ==
    /\ id \in TaskIds
    /\ project.viewScale = "hour"
    /\ tasks' = updateScaleValue(TaskById(id), field, MinuteInputValue(TaskById(id), field, typed))
    /\ Step(Op("editMinute", id, field, typed))
    /\ UNCHANGED <<project, projects, nextId, dragVars, calVars>>

EditDayInput(id, field, typed) ==
    /\ id \in TaskIds
    /\ project.viewScale # "hour"
    /\ tasks' = updateScaleValue(TaskById(id), field, DayInputValue(typed))
    /\ Step(Op("editDay", id, field, typed))
    /\ UNCHANGED <<project, projects, nextId, dragVars, calVars>>

\* addTask of the store: { ...taskData, id }
addTask(taskData) == Append(tasks, Spread(taskData, [id |-> nextId + 1]))

\* the new task ending half an hour after the last one
handleAddTask_HalfHour ==
    /\ nextId < MaxTasks
    /\ LET ts == projectTasks
           base == [projectId |-> project.id, order |-> Len(ts)]
       IN IF project.viewScale = "hour" /\ Len(ts) > 0
          THEN LET lastSchedule == ScheduleOf(ts[Len(ts)])
                   lastEndTime == IF HasField(lastSchedule, "hour", "end")
                                  THEN OrDefault(lastSchedule.hour.end,
                                                 DEFAULT_SCALE_SCHEDULE.hour.end)
                                  ELSE DEFAULT_SCALE_SCHEDULE.hour.end
                   scaleSchedule == [DEFAULT_SCALE_SCHEDULE EXCEPT
                                        !.hour = [start |-> lastEndTime, end |-> lastEndTime + 30]]
               IN tasks' = addTask(Spread(base, [scaleSchedule |-> scaleSchedule]))
          ELSE tasks' = addTask(base)
    /\ nextId' = nextId + 1
    /\ Step(Op("handleAddTask", nextId + 1, "none", 0))
    /\ UNCHANGED <<project, projects, dragVars, calVars>>

\* ChartCalendar.handleAddTask
handleAddTask ==
    /\ nextId < MaxTasks
    /\ LET ts == projectTasks
           base == [projectId |-> project.id, order |-> Len(ts)]
       IN IF project.viewScale = "hour" /\ Len(ts) > 0
          THEN LET lastSchedule == ScheduleOf(ts[Len(ts)])
                   lastEndTime == IF HasField(lastSchedule, "hour", "end")
                                  THEN OrDefault(lastSchedule.hour.end,
                                                 DEFAULT_SCALE_SCHEDULE.hour.end)
                                  ELSE DEFAULT_SCALE_SCHEDULE.hour.end
                   scaleSchedule == [DEFAULT_SCALE_SCHEDULE EXCEPT
                                        !.hour = [start |-> lastEndTime, end |-> lastEndTime + 60]]
               IN tasks' = addTask(Spread(base, [scaleSchedule |-> scaleSchedule]))
          ELSE tasks' = addTask(base)
    /\ nextId' = nextId + 1
    /\ Step(Op("handleAddTask", nextId + 1, "none", 0))
    /\ UNCHANGED <<project, projects, dragVars, calVars>>

\* TaskList.handleAddTask
TaskList_handleAddTask ==
    /\ nextId < MaxTasks
    /\ tasks' = addTask([projectId |-> project.id, order |-> Len(projectTasks)])
    /\ nextId' = nextId + 1
    /\ Step(Op("TaskList.handleAddTask", nextId + 1, "none", 0))
    /\ UNCHANGED <<project, projects, dragVars, calVars>>

\* the delete button of a TaskList row
DeleteTask(id) ==
    /\ id \in TaskIds
    /\ ~isDragging
    /\ tasks' = deleteTask(tasks, id)
    /\ Step(Op("deleteTask", id, "none", 0))
    /\ UNCHANGED <<project, projects, nextId, dragVars, calVars>>

\* newTasks.splice(index, 1)
RemoveAt(seq, index) == SubSeq(seq, 1, index - 1) \o SubSeq(seq, index + 1, Len(seq))

\* newTasks.splice(index, 0, removed)
InsertAt(seq, index, removed) ==
    SubSeq(seq, 1, index - 1) \o <<removed>> \o SubSeq(seq, index, Len(seq))

\* sortedTasks.findIndex(t => t.id === id), counted from 1
findIndex(seq, id) == CHOOSE i \in 1 .. Len(seq) : seq[i].id = id

\* handleDrop of a row dragged (handleDragStart) onto another row: every task
\* gets its index in the new sequence as order
handleDrop(draggedTaskId, targetTaskId) ==
    /\ ~isDragging
    /\ project # null
    /\ \E i \in 1 .. Len(projectTasks) : projectTasks[i].id = draggedTaskId
    /\ \E i \in 1 .. Len(projectTasks) : projectTasks[i].id = targetTaskId
    /\ draggedTaskId # targetTaskId
    /\ LET sortedTasks == SortByOrder(projectTasks)
           draggedIndex == findIndex(sortedTasks, draggedTaskId)
           targetIndex == findIndex(sortedTasks, targetTaskId)
           removed == sortedTasks[draggedIndex]
           newTasks == InsertAt(RemoveAt(sortedTasks, draggedIndex), targetIndex, removed)
       IN tasks' = [i \in 1 .. Len(tasks) |->
                       IF tasks[i].projectId = project.id
                       THEN Spread(tasks[i], [order |-> findIndex(newTasks, tasks[i].id) - 1])
                       ELSE tasks[i]]
    /\ Step(Op("handleDrop", draggedTaskId, "none", targetTaskId))
    /\ UNCHANGED <<project, projects, nextId, dragVars, calVars>>

-----------------------------------------------------------------------------
(* Scale selector (ScaleSelector.tsx, wired by ChartEditor) *)

\* handleScaleChange: updateProject(projectId, { viewScale: scale })
handleScaleChange(scale) ==
    /\ ~isDragging
    /\ project' = updateProject([viewScale |-> scale])
    /\ Step(Op("handleScaleChange", 0, scale, 0))
    /\ ProjectStored
    /\ UNCHANGED <<tasks, nextId, dragVars, calVars>>

\* the new start hour compared with <= instead of <
SelectStartHour_Inclusive(newStart) ==
    /\ ~isDragging
    /\ project.viewScale = "hour"
    /\ newStart \in hourOptions \ {24}
    /\ IF newStart <= hourSettings.endHour
       THEN project' = updateProject([hourScaleSettings |->
                           [hourSettings EXCEPT !.startHour = newStart]])
       ELSE project' = project
    /\ Step(Op("selectStartHour", 0, "none", newStart))
    /\ ProjectStored
    /\ UNCHANGED <<tasks, nextId, dragVars, calVars>>

\* onChange of the start-hour select; the last hour option is not offered
SelectStartHour(newStart) ==
    /\ ~isDragging
    /\ project.viewScale = "hour"
    /\ newStart \in hourOptions \ {24}
    /\ IF newStart < hourSettings.endHour
       THEN project' = updateProject([hourScaleSettings |->
                           [hourSettings EXCEPT !.startHour = newStart]])
       ELSE project' = project
    /\ Step(Op("selectStartHour", 0, "none", newStart))
    /\ ProjectStored
    /\ UNCHANGED <<tasks, nextId, dragVars, calVars>>

\* onChange of the end-hour select; hour 0 is not offered
SelectEndHour(newEnd) ==
    /\ ~isDragging
    /\ project.viewScale = "hour"
    /\ newEnd \in hourOptions \ {0}
    /\ IF newEnd > hourSettings.startHour
       THEN project' = updateProject([hourScaleSettings |->
                           [hourSettings EXCEPT !.endHour = newEnd]])
       ELSE project' = project
    /\ Step(Op("selectEndHour", 0, "none", newEnd))
    /\ ProjectStored
    /\ UNCHANGED <<tasks, nextId, dragVars, calVars>>

\* onChange of the day-count select of the active day / week / month scale
SelectDayCount(n) ==
    /\ ~isDragging
    /\ \/ /\ project.viewScale = "day"
          /\ n \in dayCountOptions
          /\ project' = updateProject([dayScaleSettings |-> [daySettings EXCEPT !.dayCount = n]])
       \/ /\ project.viewScale = "week"
          /\ n \in weekCountOptions
          /\ project' = updateProject([dayScaleSettings |-> [daySettings EXCEPT !.weekCount = n]])
       \/ /\ project.viewScale = "month"
          /\ n \in monthCountOptions
          /\ project' = updateProject([dayScaleSettings |-> [daySettings EXCEPT !.monthCount = n]])
    /\ Step(Op("selectDayCount", 0, project.viewScale, n))
    /\ ProjectStored
    /\ UNCHANGED <<tasks, nextId, dragVars, calVars>>

-----------------------------------------------------------------------------
(* Task bar gestures (TaskBar.tsx) *)

NoDragType == "null"

\* newSchedule of updateScaleValue (TaskBar): the value clamped to the window
TaskBar_newScheduleOf(task, field, value) ==
    LET currentSchedule == ScheduleOf(task)
        scale == project.viewScale
        clampedValue == Max(getMinValue, Min(getMaxValue, value))
    IN SetKey(currentSchedule, scale,
              SetKey(EntryOf(currentSchedule, scale), field, clampedValue))

\* updateScaleValue of TaskBar: clamps the value to the window, then stores it
TaskBar_updateScaleValue(task, field, value) ==
    updateTask(tasks, task.id, [scaleSchedule |-> TaskBar_newScheduleOf(task, field, value)])

\* the day offset taken as zero-based
getBarPosition_ZeroBased(task, cellWidth) ==
    LET startValue == getScaleValue(task, "start")
        endValue == getScaleValue(task, "end")
        hour == project.viewScale = "hour"
        startOffset5 == IF hour THEN startValue - startMinutes ELSE 5 * startValue
        duration5 == IF hour THEN (endValue - startValue) + 5
                     ELSE 5 * (endValue - startValue + 1)
    IN [left  |-> Max(0, startOffset5) * cellWidth,
        width |-> Max(5, duration5) * cellWidth - 20]

\* the duration counted one unit too long
getBarPosition_ExtraUnit(task, cellWidth) ==
    LET startValue == getScaleValue(task, "start")
        endValue == getScaleValue(task, "end")
        hour == project.viewScale = "hour"
        startOffset5 == IF hour THEN startValue - startMinutes ELSE 5 * (startValue - 1)
        duration5 == IF hour THEN (endValue - startValue) + 10
                     ELSE 5 * (endValue - startValue + 2)
    IN [left  |-> Max(0, startOffset5) * cellWidth,
        width |-> Max(5, duration5) * cellWidth - 20]

\* getBarPosition, lengths in fifths of a pixel: startOffset and duration are
\* (minutes / 5) on the hour scale, so five times them is exact for any minute
getBarPosition(task, cellWidth) ==
    LET startValue == getScaleValue(task, "start")
        endValue == getScaleValue(task, "end")
        hour == project.viewScale = "hour"
        startOffset5 == IF hour THEN startValue - startMinutes ELSE 5 * (startValue - 1)
        duration5 == IF hour THEN (endValue - startValue) + 5
                     ELSE 5 * (endValue - startValue + 1)
    IN [left  |-> Max(0, startOffset5) * cellWidth,
        width |-> Max(5, duration5) * cellWidth - 20]

\* startOffset and duration of the bar geometry, five times their value
barUnits(task) ==
    LET startValue == getScaleValue(task, "start")
        endValue == getScaleValue(task, "end")
        hour == project.viewScale = "hour"
    IN [startOffset5 |-> IF hour THEN startValue - startMinutes ELSE 5 * (startValue - 1),
        duration5    |-> IF hour THEN (endValue - startValue) + 5
                         ELSE 5 * (endValue - startValue + 1)]

\* getTaskBarStyle of ChartCalendar, lengths in fifths of a pixel: the offset
\* is startOffset * cellWidth as it is
getTaskBarStyle(task, cellWidth) ==
    [left  |-> barUnits(task).startOffset5 * cellWidth,
     width |-> Max(barUnits(task).duration5, 5) * cellWidth - 20]

\* getTaskBarStyle of PrintPreview, lengths in fifths of a pixel (gap 2 px)
PrintPreview_getTaskBarStyle(task, cellWidth) ==
    [left  |-> Max(0, barUnits(task).startOffset5) * cellWidth,
     width |-> Max(5, barUnits(task).duration5) * cellWidth - 10]

\* Math.floor(relativeX / cellWidth), relativeX in fifths of a pixel
cellIndexAt(relativeX, cellWidth) == relativeX \div (5 * cellWidth)

\* handleMouseDown(e, type) on the bar body or one of its handles
handleMouseDown(id, type) ==
    /\ id \in TaskIds
    /\ ~isDragging
    /\ isDragging' = TRUE
    /\ dragType' = type
    /\ dragStartValues' = [start |-> getScaleValue(TaskById(id), "start"),
                           end   |-> getScaleValue(TaskById(id), "end")]
    /\ dragTaskId' = id
    /\ Step(Op("handleMouseDown", id, type, 0))
    /\ UNCHANGED <<project, projects, tasks, nextId, calVars>>

\* the window listeners exist only while the effect guard passes and the bar is mounted
ListenersAttached ==
    /\ isDragging
    /\ dragType # NoDragType
    /\ dragStartValues # null
    /\ dragTaskId \in TaskIds

\* cell index to value: 5-minute steps on the hour scale, 1-based days otherwise
newValueOf(cellIndex) ==
    IF project.viewScale = "hour" THEN startMinutes + cellIndex * 5 ELSE cellIndex + 1

\* the new schedule built from the defaults instead of the task's schedule
MoveBranch_FromDefaults(task, newValue) ==
    LET minValue == getMinValue
        maxValue == getMaxValue
        duration == dragStartValues.end - dragStartValues.start
        newStart == Max(minValue, Min(maxValue - duration, newValue))
        newEnd == newStart + duration
        newSchedule == [DEFAULT_SCALE_SCHEDULE EXCEPT
                           ![project.viewScale] = [start |-> newStart, end |-> newEnd]]
    IN updateTask(tasks, task.id, [scaleSchedule |-> newSchedule])

\* move branch of handleMouseMove
MoveBranch(task, newValue) ==
    LET minValue == getMinValue
        maxValue == getMaxValue
        duration == dragStartValues.end - dragStartValues.start
        newStart == Max(minValue, Min(maxValue - duration, newValue))
        newEnd == newStart + duration
        currentSchedule == ScheduleOf(task)
        newSchedule == SetKey(currentSchedule, project.viewScale,
                              [start |-> newStart, end |-> newEnd])
    IN updateTask(tasks, task.id, [scaleSchedule |-> newSchedule])

\* the candidate compared with <= instead of <
ResizeStartBranch_Inclusive(task, newValue) ==
    LET currentEnd == getScaleValue(task, "end")
    IN IF newValue <= currentEnd /\ newValue >= getMinValue
       THEN TaskBar_updateScaleValue(task, "start", newValue)
       ELSE tasks

\* resize-start branch of handleMouseMove
ResizeStartBranch(task, newValue) ==
    LET currentEnd == getScaleValue(task, "end")
    IN IF newValue < currentEnd /\ newValue >= getMinValue
       THEN TaskBar_updateScaleValue(task, "start", newValue)
       ELSE tasks

\* resize-end branch of handleMouseMove
ResizeEndBranch(task, newValue) ==
    LET currentStart == getScaleValue(task, "start")
        increment == IF project.viewScale = "hour" THEN 5 ELSE 1
        endValue == newValue + increment
    IN IF endValue > currentStart /\ endValue <= getMaxValue
       THEN TaskBar_updateScaleValue(task, "end", endValue)
       ELSE tasks

\* handleMouseMove with Math.floor(relativeX / cellWidth) = cellIndex
handleMouseMove(cellIndex) ==
    /\ ListenersAttached
    /\ LET task == TaskById(dragTaskId)
           newValue == newValueOf(cellIndex)
       IN tasks' = CASE dragType = "move"         -> MoveBranch(task, newValue)
                     [] dragType = "resize-start" -> ResizeStartBranch(task, newValue)
                     [] dragType = "resize-end"   -> ResizeEndBranch(task, newValue)
    /\ Step(Op("handleMouseMove", dragTaskId, dragType, cellIndex))
    /\ UNCHANGED <<project, projects, nextId, dragVars, calVars>>

\* the gesture rolled back to the interval captured at mouse-down
handleMouseUp_Rollback ==
    /\ ListenersAttached
    /\ isDragging' = FALSE
    /\ dragType' = NoDragType
    /\ tasks' = updateTask(tasks, dragTaskId,
                    [scaleSchedule |-> [ScheduleOf(TaskById(dragTaskId)) EXCEPT
                                           ![project.viewScale] = dragStartValues]])
    /\ Step(Op("handleMouseUp", dragTaskId, dragType, 0))
    /\ UNCHANGED <<project, projects, nextId, dragStartValues, dragTaskId, calVars>>

\* handleMouseUp
handleMouseUp ==
    /\ ListenersAttached
    /\ isDragging' = FALSE
    /\ dragType' = NoDragType
    /\ Step(Op("handleMouseUp", dragTaskId, dragType, 0))
    /\ UNCHANGED <<project, projects, tasks, nextId, dragStartValues, dragTaskId, calVars>>

\* the button is released where the window does not receive the mouseup (or the
\* window loses the pointer during the gesture): the effect registers listeners
\* for mousemove and mouseup only, so no handler runs and no state changes
LostPointerCapture ==
    /\ ListenersAttached
    /\ Step(Op("lostPointerCapture", dragTaskId, dragType, 0))
    /\ UNCHANGED <<project, projects, tasks, nextId, dragVars, calVars>>

-----------------------------------------------------------------------------
(* Working-day rules (lib/holidays.ts)                                     *)
(*                                                                         *)
(* A Date is a calendar day plus a time of day (0 = midnight, 1 = noon).   *)
(* Day 0 is Monday 2024-01-01, so day d falls on weekday d % 7 with        *)
(* 5 = Saturday and 6 = Sunday.                                            *)

Days == 0 .. MaxDate

TimesOfDay == {0, 1}

Dates == [day : Days, tod : TimesOfDay]

\* national holidays of @holiday-jp among the modelled days:
\* 2024-01-01 (New Year's Day) and 2024-01-08 (Coming of Age Day)
NationalHolidays == {0, 7}

\* format(date, 'yyyy-MM-dd'): the local calendar day, the time of day is dropped
format(date) == date.day

isSaturday(date) == date.day % 7 = 5

isSunday(date) == date.day % 7 = 6

isHoliday(date) == format(date) \in NationalHolidays

\* the custom holidays consulted before the custom workdays
isNonWorkday_HolidaysFirst(date, settings) ==
    LET dateStr == format(date)
    IN IF dateStr \in settings.customHolidays THEN TRUE
       ELSE IF dateStr \in settings.customWorkdays THEN FALSE
       ELSE IF settings.skipSaturday /\ isSaturday(date) THEN TRUE
       ELSE IF settings.skipSunday /\ isSunday(date) THEN TRUE
       ELSE IF settings.skipHolidays /\ isHoliday(date) THEN TRUE
       ELSE FALSE

isNonWorkday(date, settings) ==
    LET dateStr == format(date)
    IN IF dateStr \in settings.customWorkdays THEN FALSE
       ELSE IF dateStr \in settings.customHolidays THEN TRUE
       ELSE IF settings.skipSaturday /\ isSaturday(date) THEN TRUE
       ELSE IF settings.skipSunday /\ isSunday(date) THEN TRUE
       ELSE IF settings.skipHolidays /\ isHoliday(date) THEN TRUE
       ELSE FALSE

\* start <= end as instants
NotAfter(start, end) == start.day < end.day \/ (start.day = end.day /\ start.tod <= end.tod)

\* eachDayOfInterval({ start, end }) for start <= end: midnight of every day
\* from the day of start to the day of end
eachDayOfInterval(start, end) ==
    [i \in 1 .. (end.day - start.day + 1) |-> [day |-> start.day + i - 1, tod |-> 0]]

\* the end day left out of the count
countWorkdays_ExclusiveEnd(start, end, settings) ==
    LET days == eachDayOfInterval(start, end)
    IN Len(SelectSeq(SubSeq(days, 1, Len(days) - 1), LAMBDA d : ~isNonWorkday(d, settings)))

countWorkdays(start, end, settings) ==
    LET days == eachDayOfInterval(start, end)
    IN Len(SelectSeq(days, LAMBDA d : ~isNonWorkday(d, settings)))

\* addDays(date, amount): the calendar day moves, the time of day stays
addDays(date, amount) == [day |-> date.day + amount, tod |-> date.tod]

RECURSIVE addWorkdaysLoop(_, _, _, _)
\* the while loop of addWorkdays, entered with the values of current and count
addWorkdaysLoop(current, count, workdays, settings) ==
    IF count < workdays
    THEN LET next == addDays(current, 1)
         IN addWorkdaysLoop(next,
                            IF ~isNonWorkday(next, settings) THEN count + 1 ELSE count,
                            workdays, settings)
    ELSE current

\* the start date counted as the first candidate
addWorkdays_FromStart(start, workdays, settings) ==
    addWorkdaysLoop(addDays(start, -1), 0, workdays, settings)

addWorkdays(start, workdays, settings) == addWorkdaysLoop(start, 0, workdays, settings)

\* the WorkdaySettings the calendar functions are called with
WorkdaySettingsSet ==
    [skipSaturday : BOOLEAN, skipSunday : BOOLEAN, skipHolidays : BOOLEAN,
     customHolidays : {{}} \cup {{d} : d \in Days},
     customWorkdays : {{}} \cup {{d} : d \in Days}]

NoCall == [fn |-> "none", start |-> [day |-> 0, tod |-> 0], end |-> [day |-> 0, tod |-> 0],
           result |-> 0]

\* each behaviour of the calendar makes one call: the functions keep no state
CallIsNonWorkday(date) ==
    /\ calCall.fn = "none"
    /\ calCall' = [fn |-> "isNonWorkday", start |-> date, end |-> date,
                   result |-> isNonWorkday(date, calSettings)]
    /\ UNCHANGED <<chartVars, calSettings>>

CallCountWorkdays(start, end) ==
    /\ calCall.fn = "none"
    /\ NotAfter(start, end)
    /\ calCall' = [fn |-> "countWorkdays", start |-> start, end |-> end,
                   result |-> countWorkdays(start, end, calSettings)]
    /\ UNCHANGED <<chartVars, calSettings>>

\* the days reached from the modelled dates lie in January 2024, whose only
\* national holidays are the two of NationalHolidays
CallAddWorkdays(start, workdays) ==
    /\ calCall.fn = "none"
    /\ calCall' = [fn |-> "addWorkdays", start |-> start, end |-> start,
                   workdays |-> workdays,
                   result |-> addWorkdays(start, workdays, calSettings)]
    /\ UNCHANGED <<chartVars, calSettings>>

\* addWorkdays entered: let current = start; let count = 0
addWorkdays_Enter(start, workdays) ==
    /\ calCall.fn = "none"
    /\ calCall' = [fn |-> "addWorkdays", start |-> start, workdays |-> workdays,
                   current |-> start, count |-> 0, done |-> FALSE]
    /\ UNCHANGED <<chartVars, calSettings>>

\* one pass of the loop in which count is never incremented
addWorkdays_Loop_NeverCounts ==
    /\ calCall.fn = "addWorkdays"
    /\ ~calCall.done
    /\ IF calCall.count < calCall.workdays
       THEN /\ calCall.current.day < MaxLoopDay
            /\ calCall' = [calCall EXCEPT !.current = addDays(calCall.current, 1)]
       ELSE calCall' = [calCall EXCEPT !.done = TRUE]
    /\ UNCHANGED <<chartVars, calSettings>>

\* one test of the while condition of addWorkdays, followed by one pass of
\* its body or by the return of current
addWorkdays_Loop ==
    /\ calCall.fn = "addWorkdays"
    /\ ~calCall.done
    /\ IF calCall.count < calCall.workdays
       THEN /\ calCall.current.day < MaxLoopDay
            /\ LET next == addDays(calCall.current, 1)
               IN calCall' = [calCall EXCEPT
                                 !.current = next,
                                 !.count = IF ~isNonWorkday(next, calSettings)
                                           THEN @ + 1 ELSE @]
       ELSE calCall' = [calCall EXCEPT !.done = TRUE]
    /\ UNCHANGED <<chartVars, calSettings>>

\* runs of custom holidays: none, one day, a run longer than a week
HolidayRuns == {{}, {1}, 1 .. (MaxDate + 2)}

\* the working-day rules the loop is run with
LoopSettings ==
    [skipSaturday : BOOLEAN, skipSunday : BOOLEAN, skipHolidays : BOOLEAN,
     customHolidays : HolidayRuns,
     customWorkdays : {{}, {6}}]

WorkdayLoopNext ==
    \/ \E day \in Days, workdays \in 0 .. MaxWorkdays :
          addWorkdays_Enter([day |-> day, tod |-> 0], workdays)
    \/ addWorkdays_Loop

-----------------------------------------------------------------------------
(* Schedules as they may come out of the persisted store: complete, or with *)
(* the entry of a scale missing or null, or one of its fields missing.      *)

StoredValues == {2, 5, MaxStored}

WithoutKey(r, k) == [x \in DOMAIN r \ {k} |-> r[x]]

ScheduleShapes ==
    UNION {
        {SetKey(DEFAULT_SCALE_SCHEDULE, s, [start |-> a, end |-> b]) :
            a \in StoredValues, b \in StoredValues}
        \cup {WithoutKey(DEFAULT_SCALE_SCHEDULE, s), SetKey(DEFAULT_SCALE_SCHEDULE, s, null)}
        \cup {SetKey(DEFAULT_SCALE_SCHEDULE, s, [start |-> a]) : a \in StoredValues}
        \cup {SetKey(DEFAULT_SCALE_SCHEDULE, s, [end |-> b]) : b \in StoredValues}
        : s \in ViewScale}

TaskShapes ==
    {[id |-> 1, projectId |-> "p1", order |-> 0]}
    \cup {[id |-> 1, projectId |-> "p1", order |-> 0, scaleSchedule |-> sch] :
             sch \in ScheduleShapes}

\* getScaleValue of the start and the end of the only task on the active scale
CallGetScaleValue ==
    /\ calCall.fn = "none"
    /\ calCall' = [fn |-> "getScaleValue",
                   result |-> [start |-> getScaleValue(tasks[1], "start"),
                               end   |-> getScaleValue(tasks[1], "end")]]
    /\ UNCHANGED <<chartVars, calSettings>>

ScheduleNext == CallGetScaleValue

-----------------------------------------------------------------------------
(* Grid generation (ChartCalendar / PrintPreview, lib/holidays.ts) *)

\* first day number and length of the months of 2024
MonthStarts == <<0, 31, 60, 91, 121, 152, 182, 213, 244, 274, 305, 335>>

DaysInMonth == <<31, 29, 31, 30, 31, 30, 31, 31, 30, 31, 30, 31>>

getMonth(date) ==
    CHOOSE m \in 1 .. 12 : /\ MonthStarts[m] <= date.day
                           /\ date.day < MonthStarts[m] + DaysInMonth[m]

\* addWeeks(date, 1)
addWeeks(date, amount) == addDays(date, 7 * amount)

\* addMonths(date, 1): the same day of the next month, or its last day
addMonths(date) ==
    LET m == getMonth(date)
        dayOfMonth == date.day - MonthStarts[m] + 1
    IN [day |-> MonthStarts[m + 1] + Min(dayOfMonth, DaysInMonth[m + 1]) - 1,
        tod |-> date.tod]

\* parseISO('yyyy-MM-dd'): local midnight of that day
parseISO(dateStr) == [day |-> dateStr, tod |-> 0]

\* the dates memo of the chart: empty on the hour scale
dates ==
    LET start == parseISO(project.startDate)
    IN CASE project.viewScale = "hour"  -> <<>>
         [] project.viewScale = "day"   ->
               eachDayOfInterval(start, addDays(start, daySettings.dayCount - 1))
         [] project.viewScale = "week"  ->
               eachDayOfInterval(start, addDays(start, daySettings.weekCount - 1))
         [] project.viewScale = "month" ->
               eachDayOfInterval(start, addDays(start, daySettings.monthCount - 1))

RECURSIVE generateDateRangeFrom(_, _, _, _)
\* the while loop of generateDateRange for the day, week and month scales
generateDateRangeFrom(current, end, scale, settings) ==
    IF NotAfter(current, end)
    THEN LET pushed == IF settings.showOnlyWorkdays /\ scale = "day"
                           /\ isNonWorkday(current, settings)
                       THEN <<>> ELSE <<current>>
             next == CASE scale = "day"   -> addDays(current, 1)
                       [] scale = "week"  -> addWeeks(current, 1)
                       [] scale = "month" -> addMonths(current)
         IN pushed \o generateDateRangeFrom(next, end, scale, settings)
    ELSE <<>>

generateDateRange(start, end, scale, settings) ==
    generateDateRangeFrom(start, end, scale, settings)

\* the window length of the active day / week / month scale
windowLength ==
    CASE project.viewScale = "day"   -> daySettings.dayCount
      [] project.viewScale = "week"  -> daySettings.weekCount
      [] project.viewScale = "month" -> daySettings.monthCount

GridHours == {0, 8, 9, 18, MaxHour}

GridWindows == {1, 3, MaxWindow}

GridAnchors == {0, MaxAnchor}

\* a Project with or without its optional window settings
GridProject(scale, anchor, h, d) ==
    Spread(Spread([id |-> "p1", viewScale |-> scale, startDate |-> anchor],
                  IF h = null THEN <<>> ELSE [hourScaleSettings |-> h]),
           IF d = null THEN <<>> ELSE [dayScaleSettings |-> d])

\* projects that differ in the hour window
HourGridProjects ==
    {GridProject(scale, 0, h, null) :
        scale \in ViewScale,
        h \in [startHour : GridHours, endHour : GridHours] \cup {null}}

\* projects that differ in the anchor date and the day windows
GridProjects ==
    {GridProject(scale, anchor, null, d) :
        scale \in ViewScale, anchor \in GridAnchors,
        d \in [dayCount : GridWindows, weekCount : GridWindows,
               monthCount : GridWindows] \cup {null}}

GridWorkdaySettings ==
    [skipSaturday : {FALSE}, skipSunday : {TRUE}, skipHolidays : {TRUE},
     customHolidays : {{}}, customWorkdays : {{}}, showOnlyWorkdays : BOOLEAN]

\* the timeSlots memo, one loop iteration at a time:
\* const slots = []; let m = startMinutes
timeSlots_Enter ==
    /\ calCall.fn = "none"
    /\ calCall' = [fn |-> "timeSlots", m |-> startMinutes, slots |-> <<>>, done |-> FALSE]
    /\ UNCHANGED <<chartVars, calSettings>>

\* the loop left one slot before the end of the window
timeSlots_Loop_ExclusiveEnd ==
    /\ calCall.fn = "timeSlots"
    /\ ~calCall.done
    /\ IF calCall.m < endMinutes
       THEN calCall' = [calCall EXCEPT !.slots = Append(@, calCall.m), !.m = @ + 5]
       ELSE calCall' = [calCall EXCEPT !.done = TRUE]
    /\ UNCHANGED <<chartVars, calSettings>>

\* m <= endMinutes ? slots.push(m), m += 5 : return slots
timeSlots_Loop ==
    /\ calCall.fn = "timeSlots"
    /\ ~calCall.done
    /\ IF calCall.m <= endMinutes
       THEN calCall' = [calCall EXCEPT !.slots = Append(@, calCall.m), !.m = @ + 5]
       ELSE calCall' = [calCall EXCEPT !.done = TRUE]
    /\ UNCHANGED <<chartVars, calSettings>>

HourGridNext ==
    \/ timeSlots_Enter
    \/ timeSlots_Loop

CallDates ==
    /\ calCall.fn = "none"
    /\ calCall' = [fn |-> "dates", result |-> dates]
    /\ UNCHANGED <<chartVars, calSettings>>

\* generateDateRange over the window of the active scale; its hourly stepping
\* on the hour scale is not modelled
CallGenerateDateRange ==
    /\ calCall.fn = "none"
    /\ project.viewScale # "hour"
    /\ LET start == parseISO(project.startDate)
           end == addDays(start, windowLength - 1)
       IN calCall' = [fn |-> "generateDateRange", start |-> start, end |-> end,
                      result |-> generateDateRange(start, end, project.viewScale,
                                                   calSettings)]
    /\ UNCHANGED <<chartVars, calSettings>>

GridNext ==
    \/ CallDates
    \/ CallGenerateDateRange

\* format(date, 'yyyy年M月'): the label of the calendar month of the date; every
\* date of the model lies in 2024, so the month number stands for the label
formatMonth(date) == getMonth(date)

RECURSIVE monthGroupsLoop(_, _, _, _, _)
\* dates.forEach of monthGroups from element i on, then the push of the last
\* group; currentMonth = 0 stands for the empty string
monthGroupsLoop(ds, i, groups, currentMonth, count) ==
    LET pushed == IF currentMonth # 0
                  THEN Append(groups, [month |-> currentMonth, count |-> count])
                  ELSE groups
    IN IF i > Len(ds) THEN pushed
       ELSE IF formatMonth(ds[i]) # currentMonth
            THEN monthGroupsLoop(ds, i + 1, pushed, formatMonth(ds[i]), 1)
            ELSE monthGroupsLoop(ds, i + 1, groups, currentMonth, count + 1)

\* the dates of the last month never pushed
monthGroups_NoFlush ==
    IF project.viewScale = "hour" THEN <<>>
    ELSE LET all == monthGroupsLoop(dates, 1, <<>>, 0, 0)
         IN SubSeq(all, 1, Len(all) - 1)

\* the monthGroups memo of ChartCalendar
monthGroups ==
    IF project.viewScale = "hour" THEN <<>>
    ELSE monthGroupsLoop(dates, 1, <<>>, 0, 0)

\* the monthGroups memo of PrintPreview
PrintPreview_monthGroups ==
    IF project.isProvisional \/ project.viewScale = "hour" THEN <<>>
    ELSE monthGroupsLoop(dates, 1, <<>>, 0, 0)

MonthWindows == {1, 3, MaxMonthWindow}

\* projects that differ in the scale, the anchor date, the day windows and the
\* provisional flag
MonthGroupProjects ==
    {[id |-> "p1", viewScale |-> scale, startDate |-> anchor, isProvisional |-> p,
      dayScaleSettings |-> d] :
        scale \in ViewScale, anchor \in GridAnchors, p \in BOOLEAN,
        d \in [dayCount : MonthWindows, weekCount : MonthWindows,
               monthCount : MonthWindows]}

CallMonthGroups ==
    /\ calCall.fn = "none"
    /\ calCall' = [fn |-> "monthGroups", result |-> monthGroups]
    /\ UNCHANGED <<chartVars, calSettings>>

CallPrintPreviewMonthGroups ==
    /\ calCall.fn = "none"
    /\ calCall' = [fn |-> "PrintPreview.monthGroups", result |-> PrintPreview_monthGroups]
    /\ UNCHANGED <<chartVars, calSettings>>

MonthGroupNext ==
    \/ CallMonthGroups
    \/ CallPrintPreviewMonthGroups

-----------------------------------------------------------------------------
(* The store called directly (useStore.ts): projects and the tasks of         *)
(* several projects. project is the record of currentProjectId, or null.     *)

ProjectIds == {projects[i].id : i \in 1 .. Len(projects)}

\* addProject as ProjectList calls it; the new project becomes the current one
CallAddProject ==
    /\ nextId < MaxIds
    /\ LET added == [id |-> nextId + 1, viewScale |-> "day", isProvisional |-> TRUE]
       IN /\ projects' = Append(projects, added)
          /\ project' = added
    /\ nextId' = nextId + 1
    /\ Step(Op("addProject", nextId + 1, "none", 0))
    /\ UNCHANGED <<tasks, dragVars, calVars>>

\* addTask for a project of the store, with the order its add-task handlers
\* pass: the number of tasks the project has
CallAddTask(projectId) ==
    /\ nextId < MaxIds
    /\ projectId \in ProjectIds
    /\ tasks' = addTask([projectId |-> projectId,
                         order |-> Len(SelectSeq(tasks, LAMBDA t : t.projectId = projectId))])
    /\ nextId' = nextId + 1
    /\ Step(Op("addTask", nextId + 1, "none", projectId))
    /\ UNCHANGED <<project, projects, dragVars, calVars>>

\* the task data the components hand to updateTask: a schedule, an order, a name
TaskDataSet ==
    {[scaleSchedule |-> SetKey(DEFAULT_SCALE_SCHEDULE, "day", [start |-> 2, end |-> 4])],
     [order |-> 0],
     [name |-> "a"]}

CallUpdateTask(id, taskData) ==
    /\ tasks' = updateTask(tasks, id, taskData)
    /\ Step(Op("updateTask", id, "none", 0))
    /\ UNCHANGED <<project, projects, nextId, dragVars, calVars>>

CallDeleteTask(id) ==
    /\ tasks' = deleteTask(tasks, id)
    /\ Step(Op("deleteTask", id, "none", 0))
    /\ UNCHANGED <<project, projects, nextId, dragVars, calVars>>

\* the tasks of the deleted project kept in the store
CallDeleteProject_KeepTasks(id) ==
    /\ projects' = SelectSeq(projects, LAMBDA p : p.id # id)
    /\ tasks' = tasks
    /\ project' = IF project # null /\ project.id = id THEN null ELSE project
    /\ Step(Op("deleteProject", id, "none", 0))
    /\ UNCHANGED <<nextId, dragVars, calVars>>

\* deleteProject: the project, its tasks, and currentProjectId if it was current
CallDeleteProject(id) ==
    /\ projects' = SelectSeq(projects, LAMBDA p : p.id # id)
    /\ tasks' = SelectSeq(tasks, LAMBDA t : t.projectId # id)
    /\ project' = IF project # null /\ project.id = id THEN null ELSE project
    /\ Step(Op("deleteProject", id, "none", 0))
    /\ UNCHANGED <<nextId, dragVars, calVars>>

\* taskIds.indexOf(id), counted from 0; -1 if the id is not listed
indexOf(taskIds, id) ==
    IF \E k \in 1 .. Len(taskIds) : taskIds[k] = id
    THEN (CHOOSE k \in 1 .. Len(taskIds) :
             /\ taskIds[k] = id
             /\ \A j \in 1 .. k - 1 : taskIds[j] # id) - 1
    ELSE -1

\* the order taken as the position counted from 1
reorderTasks_OneBased(ts, projectId, taskIds) ==
    [i \in 1 .. Len(ts) |->
        IF ts[i].projectId # projectId THEN ts[i]
        ELSE LET newOrder == indexOf(taskIds, ts[i].id)
             IN IF newOrder >= 0 THEN Spread(ts[i], [order |-> newOrder + 1]) ELSE ts[i]]

\* reorderTasks(projectId, taskIds) on the task sequence ts
reorderTasks(ts, projectId, taskIds) ==
    [i \in 1 .. Len(ts) |->
        IF ts[i].projectId # projectId THEN ts[i]
        ELSE LET newOrder == indexOf(taskIds, ts[i].id)
             IN IF newOrder >= 0 THEN Spread(ts[i], [order |-> newOrder]) ELSE ts[i]]

\* id lists handed to reorderTasks: one or two different ids
TaskIdLists ==
    {<<a>> : a \in 1 .. MaxIds}
        \cup {ids \in (1 .. MaxIds) \X (1 .. MaxIds) : ids[1] # ids[2]}

CallReorderTasks(projectId, taskIds) ==
    /\ tasks' = reorderTasks(tasks, projectId, taskIds)
    /\ Step(Op("reorderTasks", projectId, "none", taskIds))
    /\ UNCHANGED <<project, projects, nextId, dragVars, calVars>>

\* the chart of the current project shows the row of task id
RowShown(id) ==
    /\ project # null
    /\ \E i \in 1 .. Len(tasks) : tasks[i].id = id /\ tasks[i].projectId = project.id

StoreNext ==
    \/ CallAddProject
    \/ \E projectId \in 1 .. MaxIds : CallAddTask(projectId)
    \/ \E id \in 1 .. MaxIds, taskData \in TaskDataSet : CallUpdateTask(id, taskData)
    \/ \E id \in 1 .. MaxIds : CallDeleteTask(id)
    \/ \E id \in 1 .. MaxIds : CallDeleteProject(id)
    \/ \E projectId \in 1 .. MaxIds, taskIds \in TaskIdLists :
          CallReorderTasks(projectId, taskIds)
    \/ \E draggedTaskId \in 1 .. MaxIds, targetTaskId \in 1 .. MaxIds :
          handleDrop(draggedTaskId, targetTaskId)
    \/ \E id \in 1 .. MaxIds, field \in {"start", "end"}, typed \in TypedValues :
          RowShown(id) /\ EditDayInput(id, field, typed)
    \/ \E id \in 1 .. MaxIds, type \in {"move", "resize-start", "resize-end"} :
          RowShown(id) /\ handleMouseDown(id, type)
    \/ \E cellIndex \in CellIndexes : RowShown(dragTaskId) /\ handleMouseMove(cellIndex)
    \/ RowShown(dragTaskId) /\ handleMouseUp

-----------------------------------------------------------------------------

CalInputs ==
    /\ calSettings \in WorkdaySettingsSet
    /\ calCall = NoCall

CalNext ==
    \/ \E date \in Dates : CallIsNonWorkday(date)
    \/ \E start \in Dates, end \in Dates : CallCountWorkdays(start, end)
    \/ \E start \in Dates, workdays \in 0 .. MaxWorkdays : CallAddWorkdays(start, workdays)

-----------------------------------------------------------------------------
(* The chart editor *)

ChartInit ==
    /\ project = [id |-> "p1", viewScale |-> "day"]
    /\ projects = <<project>>
    /\ tasks = <<>>
    /\ nextId = 0
    /\ isDragging = FALSE
    /\ dragType = NoDragType
    /\ dragStartValues = null
    /\ dragTaskId = 0
    /\ lastOp = Op("init", 0, "none", 0)
    /\ steps = 0

CalIdle ==
    /\ calSettings = [skipSaturday |-> FALSE, skipSunday |-> TRUE, skipHolidays |-> TRUE,
                      customHolidays |-> {}, customWorkdays |-> {}]
    /\ calCall = NoCall

Init == ChartInit /\ CalIdle

Next ==
    \/ handleAddTask
    \/ TaskList_handleAddTask
    \/ \E id \in 1 .. MaxTasks : DeleteTask(id)
    \/ \E draggedTaskId \in 1 .. MaxTasks, targetTaskId \in 1 .. MaxTasks :
          handleDrop(draggedTaskId, targetTaskId)
    \/ \E id \in 1 .. MaxTasks, field \in {"start", "end"}, typed \in TypedHours :
          EditHourInput(id, field, typed)
    \/ \E id \in 1 .. MaxTasks, field \in {"start", "end"}, typed \in TypedMinutes :
          EditMinuteInput(id, field, typed)
    \/ \E id \in 1 .. MaxTasks, field \in {"start", "end"}, typed \in TypedValues :
          EditDayInput(id, field, typed)
    \/ \E scale \in ViewScale : handleScaleChange(scale)
    \/ \E h \in hourOptions : SelectStartHour(h)
    \/ \E h \in hourOptions : SelectEndHour(h)
    \/ \E n \in dayCountOptions \cup weekCountOptions \cup monthCountOptions : SelectDayCount(n)
    \/ \E id \in 1 .. MaxTasks, type \in {"move", "resize-start", "resize-end"} :
          handleMouseDown(id, type)
    \/ \E cellIndex \in CellIndexes : handleMouseMove(cellIndex)
    \/ handleMouseUp
    \/ LostPointerCapture

Spec == Init /\ [][Next]_vars

\* the calendar functions applied to every date and rule set of the bounds
CalInit ==
    /\ project = [id |-> "p1", viewScale |-> "day"]
    /\ projects = <<project>>
    /\ tasks = <<>>
    /\ nextId = 0
    /\ isDragging = FALSE
    /\ dragType = NoDragType
    /\ dragStartValues = null
    /\ dragTaskId = 0
    /\ lastOp = Op("init", 0, "none", 0)
    /\ steps = 0
    /\ CalInputs

CalSpec == CalInit /\ [][CalNext]_vars

\* the grid generators applied to every project of the bounds
GridInit ==
    /\ project \in GridProjects
    /\ projects = <<project>>
    /\ tasks = <<>>
    /\ nextId = 0
    /\ isDragging = FALSE
    /\ dragType = NoDragType
    /\ dragStartValues = null
    /\ dragTaskId = 0
    /\ lastOp = Op("init", 0, "none", 0)
    /\ steps = 0
    /\ calSettings \in GridWorkdaySettings
    /\ calCall = NoCall

GridSpec == GridInit /\ [][GridNext]_vars

\* getScaleValue applied to every schedule shape on every scale
ScheduleInit ==
    /\ project \in {[id |-> "p1", viewScale |-> scale] : scale \in ViewScale}
    /\ projects = <<project>>
    /\ tasks \in {<<t>> : t \in TaskShapes}
    /\ nextId = 1
    /\ isDragging = FALSE
    /\ dragType = NoDragType
    /\ dragStartValues = null
    /\ dragTaskId = 0
    /\ lastOp = Op("init", 0, "none", 0)
    /\ steps = 0
    /\ calSettings = [skipSaturday |-> FALSE, skipSunday |-> TRUE, skipHolidays |-> TRUE,
                      customHolidays |-> {}, customWorkdays |-> {}]
    /\ calCall = NoCall

ScheduleSpec == ScheduleInit /\ [][ScheduleNext]_vars

\* the hour grid generated for every hour window of the bounds
HourGridInit ==
    /\ project \in HourGridProjects
    /\ projects = <<project>>
    /\ tasks = <<>>
    /\ nextId = 0
    /\ isDragging = FALSE
    /\ dragType = NoDragType
    /\ dragStartValues = null
    /\ dragTaskId = 0
    /\ lastOp = Op("init", 0, "none", 0)
    /\ steps = 0
    /\ calSettings = [skipSaturday |-> FALSE, skipSunday |-> TRUE, skipHolidays |-> TRUE,
                      customHolidays |-> {}, customWorkdays |-> {}]
    /\ calCall = NoCall

HourGridSpec == HourGridInit /\ [][HourGridNext]_vars

\* the month grouping applied to every project of the bounds
MonthGroupInit ==
    /\ project \in MonthGroupProjects
    /\ projects = <<project>>
    /\ tasks = <<>>
    /\ nextId = 0
    /\ isDragging = FALSE
    /\ dragType = NoDragType
    /\ dragStartValues = null
    /\ dragTaskId = 0
    /\ lastOp = Op("init", 0, "none", 0)
    /\ steps = 0
    /\ calSettings = [skipSaturday |-> FALSE, skipSunday |-> TRUE, skipHolidays |-> TRUE,
                      customHolidays |-> {}, customWorkdays |-> {}]
    /\ calCall = NoCall

MonthGroupSpec == MonthGroupInit /\ [][MonthGroupNext]_vars

\* the store as created: no project, no task, no project open
StoreInit ==
    /\ project = null
    /\ projects = <<>>
    /\ tasks = <<>>
    /\ nextId = 0
    /\ isDragging = FALSE
    /\ dragType = NoDragType
    /\ dragStartValues = null
    /\ dragTaskId = 0
    /\ lastOp = Op("init", 0, "none", 0)
    /\ steps = 0
    /\ calSettings = [skipSaturday |-> FALSE, skipSunday |-> TRUE, skipHolidays |-> TRUE,
                      customHolidays |-> {}, customWorkdays |-> {}]
    /\ calCall = NoCall

StoreSpec == StoreInit /\ [][StoreNext]_vars

-----------------------------------------------------------------------------
(* Properties of the schedule model and the gestures *)

TaskOf(ts, id) == ts[CHOOSE i \in 1 .. Len(ts) : ts[i].id = id]

IdsOf(ts) == {ts[i].id : i \in 1 .. Len(ts)}

\* the interval of the dragged task on the active scale
DraggedInterval == Resolve(TaskById(dragTaskId), project.viewScale)

MoveFrame == lastOp.op = "handleMouseMove" /\ lastOp.field = "move"

ResizeStartFrame == lastOp.op = "handleMouseMove" /\ lastOp.field = "resize-start"

ResizeEndFrame == lastOp.op = "handleMouseMove" /\ lastOp.field = "resize-end"

\* C1: for every task and every scale the resolved interval has start <= end
\* after any sequence of direct start/end edits and Move / ResizeStart /
\* ResizeEnd gestures.
C1_StartNotAfterEnd ==
    \A i \in 1 .. Len(tasks) : \A s \in ViewScale :
        Resolve(tasks[i], s).start <= Resolve(tasks[i], s).end

\* C2: after any sequence of task creation, gestures, direct edits and window
\* changes, every task's resolved interval on the active scale lies inside the
\* window of that scale.
C2_InsideWindow ==
    \A i \in 1 .. Len(tasks) :
        /\ getMinValue <= getScaleValue(tasks[i], "start")
        /\ getScaleValue(tasks[i], "end") <= getMaxValue

C4_OtherScalesUntouched ==
    [][lastOp'.op \in {"handleScaleChange", "handleMouseMove", "editHour",
                       "editMinute", "editDay"}
       => /\ IdsOf(tasks') = IdsOf(tasks)
          /\ \A id \in IdsOf(tasks) : \A s \in ViewScale :
                (lastOp'.op = "handleScaleChange" \/ s # project.viewScale)
                    => Resolve(TaskOf(tasks', id), s) = Resolve(TaskOf(tasks, id), s)]_vars

\* a Move frame has run on one scale while the task holds an edited interval
\* on another scale
C4_Witness ==
    /\ MoveFrame
    /\ DraggedInterval # DEFAULT_SCALE_SCHEDULE[project.viewScale]
    /\ \E s \in ViewScale \ {project.viewScale} :
          Resolve(TaskById(dragTaskId), s) # DEFAULT_SCALE_SCHEDULE[s]

\* C5: every Move frame commits start = clamp(candidate, [minValue, maxValue -
\* duration]) and end = start + duration with the duration captured at
\* pointer-down, so start <= end at every frame.
C5_MoveKeepsDurationAndOrder ==
    MoveFrame =>
        LET duration == dragStartValues.end - dragStartValues.start
            candidate == newValueOf(lastOp.value)
        IN /\ DraggedInterval.start = Max(getMinValue, Min(getMaxValue - duration, candidate))
           /\ DraggedInterval.end = DraggedInterval.start + duration
           /\ DraggedInterval.start <= DraggedInterval.end

\* C6 as stated: a ResizeStart frame sets start to the candidate (end
\* unchanged) only if candidate < current end and candidate >= minValue,
\* otherwise changes nothing, and the interval has start < end after any
\* ResizeStart frame.
C6_AsStated ==
    [][(lastOp'.op = "handleMouseMove" /\ lastOp'.field = "resize-start")
       => LET before == DraggedInterval
              after == Resolve(TaskOf(tasks', dragTaskId), project.viewScale)
              candidate == newValueOf(lastOp'.value)
          IN /\ IF candidate < before.end /\ candidate >= getMinValue
                THEN after = [start |-> candidate, end |-> before.end]
                ELSE tasks' = tasks
             /\ after.start < after.end]_vars

\* C6 (amended): a ResizeStart frame is accepted iff candidate < current end
\* and candidate >= minValue; an accepted frame sets start to the candidate
\* bounded above by maxValue, leaves end unchanged and yields start < end; a
\* rejected frame changes nothing.
C6_ResizeStart ==
    [][(lastOp'.op = "handleMouseMove" /\ lastOp'.field = "resize-start")
       => LET before == DraggedInterval
              after == Resolve(TaskOf(tasks', dragTaskId), project.viewScale)
              candidate == newValueOf(lastOp'.value)
          IN IF candidate < before.end /\ candidate >= getMinValue
             THEN /\ after = [start |-> Min(candidate, getMaxValue), end |-> before.end]
                  /\ after.start < after.end
             ELSE tasks' = tasks]_vars

\* an accepted ResizeStart frame has moved the start to the candidate
C6_Witness ==
    /\ ResizeStartFrame
    /\ DraggedInterval.start = newValueOf(lastOp.value)
    /\ DraggedInterval.start # dragStartValues.start
    /\ DraggedInterval.end = dragStartValues.end

\* C7: a ResizeEnd frame sets end to candidate + unit (5 minutes on the hour
\* scale, 1 day otherwise; start unchanged) only if candidate + unit > current
\* start and candidate + unit <= maxValue, otherwise changes nothing.
C7_ResizeEnd ==
    [][(lastOp'.op = "handleMouseMove" /\ lastOp'.field = "resize-end")
       => LET before == DraggedInterval
              after == Resolve(TaskOf(tasks', dragTaskId), project.viewScale)
              unit == IF project.viewScale = "hour" THEN 5 ELSE 1
              candidate == newValueOf(lastOp'.value)
          IN IF candidate + unit > before.start /\ candidate + unit <= getMaxValue
             THEN after = [start |-> before.start, end |-> candidate + unit]
             ELSE tasks' = tasks]_vars

\* C8: a pointer-up in any Dragging state returns the controller to Idle and
\* leaves every task as the last frame left it (no rollback to the origin).
C8_PointerUpReturnsToIdle ==
    [][lastOp'.op = "handleMouseUp"
       => /\ isDragging
          /\ ~isDragging'
          /\ dragType' = NoDragType
          /\ tasks' = tasks]_vars

\* the gesture has ended in Idle and the task keeps an interval that differs
\* from the one captured at pointer-down
C8_Witness ==
    /\ lastOp.op = "handleMouseUp"
    /\ ~isDragging
    /\ dragTaskId \in TaskIds
    /\ DraggedInterval # dragStartValues

\* C21: losing the pointer while Dragging is treated as pointer-up: the
\* controller is Idle afterwards, and a pointer-move that follows it emits no
\* schedule update.
C21_LostCaptureIsPointerUp ==
    [][/\ lastOp'.op = "lostPointerCapture" => ~isDragging' /\ dragType' = NoDragType
       /\ (lastOp.op = "lostPointerCapture" /\ lastOp'.op = "handleMouseMove")
             => tasks' = tasks]_vars

\* C24: after any sequence of hour-window changes made through the scale
\* selector the window satisfies 0 <= startHour < endHour <= 24, and a change
\* that would make startHour >= endHour is ignored: the window stays as it was.
C24_HourWindow ==
    [][/\ 0 <= hourSettings'.startHour
       /\ hourSettings'.startHour < hourSettings'.endHour
       /\ hourSettings'.endHour <= 24
       /\ (lastOp'.op = "selectStartHour" /\ lastOp'.value >= hourSettings.endHour)
             => project' = project
       /\ (lastOp'.op = "selectEndHour" /\ lastOp'.value <= hourSettings.startHour)
             => project' = project]_vars

\* a start hour equal to the end hour has been chosen after an accepted change
\* of the start hour, and the window is still the one chosen before
C24_Witness ==
    /\ lastOp.op = "selectStartHour"
    /\ lastOp.value = hourSettings.endHour
    /\ hourSettings = [startHour |-> 9, endHour |-> 18]

\* the resolved start and end of a task both lie in the window of the active scale
InWindow(task) ==
    /\ getMinValue <= getScaleValue(task, "start")
    /\ getScaleValue(task, "start") <= getMaxValue
    /\ getMinValue <= getScaleValue(task, "end")
    /\ getScaleValue(task, "end") <= getMaxValue

\* number of cells of the grid: timeSlots.length on the hour scale,
\* dates.length on the other scales
gridCells ==
    IF project.viewScale = "hour"
    THEN (hourSettings.endHour - hourSettings.startHour) * 12 + 1
    ELSE windowLength

\* C28: for every task whose resolved interval lies within the window of the
\* active scale the bar stays inside the grid: offset + width <= (number of
\* grid cells) * cellWidth.
C28_BarInsideGrid ==
    \A i \in 1 .. Len(tasks) : \A cellWidth \in CellWidths :
        InWindow(tasks[i]) =>
            LET position == getBarPosition(tasks[i], cellWidth)
            IN position.left + position.width <= 5 * gridCells * cellWidth

\* a bar that starts after the first cell ends in the last cell of the hour
\* grid, the gap short of the right edge
C28_Witness ==
    /\ project.viewScale = "hour"
    /\ \E i \in 1 .. Len(tasks) :
          LET position == getBarPosition(tasks[i], MaxCellWidth)
          IN /\ InWindow(tasks[i])
             /\ getScaleValue(tasks[i], "start") > getMinValue
             /\ getScaleValue(tasks[i], "end") = getMaxValue
             /\ position.left + position.width = 5 * gridCells * MaxCellWidth - 20

\* C29: schedule updates from pointer motion are emitted only while a gesture
\* is active: in Idle (before any pointer-down on a bar, and after each
\* pointer-up) no pointer-move or pointer-up handler runs and no such event
\* changes a task; and the mode chosen at pointer-down stays fixed until the
\* next pointer-up.
C29_UpdatesOnlyWhileGestureActive ==
    [][/\ ~isDragging => lastOp'.op \notin {"handleMouseMove", "handleMouseUp"}
       /\ (/\ lastOp.op \in {"handleMouseUp", "lostPointerCapture"}
           /\ lastOp'.op \in {"handleMouseMove", "handleMouseUp"}) => tasks' = tasks
       /\ (dragType # NoDragType /\ dragType' # dragType)
             => lastOp'.op = "handleMouseUp"]_vars

\* the geometry specified for an interval, in fifths of a pixel: offset =
\* max(0, unitsBeforeStart) * cellWidth, width = max(1, unitsSpanned) * cellWidth - gap
toGeometry(interval, cellWidth, gap5) ==
    LET hour == project.viewScale = "hour"
        unitsBeforeStart5 == IF hour THEN interval.start - startMinutes
                             ELSE 5 * (interval.start - 1)
        unitsSpanned5 == IF hour THEN (interval.end - interval.start) + 5
                         ELSE 5 * (interval.end - interval.start + 1)
    IN [left  |-> Max(0, unitsBeforeStart5) * cellWidth,
        width |-> Max(5, unitsSpanned5) * cellWidth - gap5]

\* C22: for every interval, also one of zero or negative duration or starting
\* before the window, every chart view places the bar at offset
\* max(0, unitsBeforeStart) * cellWidth with width
\* max(1, unitsSpanned) * cellWidth - gap, hence offset >= 0 and
\* width >= cellWidth - gap.
C22_Geometry ==
    \A i \in 1 .. Len(tasks) : \A cellWidth \in CellWidths :
        LET interval == Resolve(tasks[i], project.viewScale)
            views == {<<getBarPosition(tasks[i], cellWidth), 20>>,
                      <<getTaskBarStyle(tasks[i], cellWidth), 20>>,
                      <<PrintPreview_getTaskBarStyle(tasks[i], cellWidth), 10>>}
        IN \A view \in views :
              /\ view[1] = toGeometry(interval, cellWidth, view[2])
              /\ view[1].left >= 0
              /\ view[1].width >= 5 * cellWidth - view[2]

\* the value the schedule model is specified to store for a raw value
ClampedRaw(rawValue) ==
    LET rounded == IF project.viewScale = "hour" THEN RoundTo5(rawValue) ELSE rawValue
    IN Max(getMinValue, Min(getMaxValue, rounded))

\* C15: an update never rejects an out-of-range raw value: on the hour scale
\* it stores the raw value rounded to the nearest multiple of 5 and then
\* bounded to [startHour*60, endHour*60]; on the day, week and month scales it
\* stores the raw value bounded to [1, windowLength].  The raw value of an hour
\* or minute input is the time of day it shows after the typing; the raw value
\* of a resize frame is the value handed to updateScaleValue.
C15_UpdateClamps ==
    [][LET op == lastOp'
           field == IF op.op = "handleMouseMove"
                    THEN (IF op.field = "resize-start" THEN "start" ELSE "end")
                    ELSE op.field
           before == getScaleValue(TaskOf(tasks, op.id), field)
           after == getScaleValue(TaskOf(tasks', op.id), field)
           unit == IF project.viewScale = "hour" THEN 5 ELSE 1
       IN /\ op.op = "editDay" => after = ClampedRaw(op.value)
          /\ op.op = "editHour" => after = ClampedRaw(op.value * 60 + (before % 60))
          /\ op.op = "editMinute" => after = ClampedRaw((before \div 60) * 60 + op.value)
          /\ (op.op = "handleMouseMove" /\ op.field = "resize-start" /\ tasks' # tasks)
                => after = ClampedRaw(newValueOf(op.value))
          /\ (op.op = "handleMouseMove" /\ op.field = "resize-end" /\ tasks' # tasks)
                => after = ClampedRaw(newValueOf(op.value) + unit)]_vars

\* values that are already valid on the active scale
ValidValues ==
    {v \in {getMinValue, getMinValue + 5, getMaxValue} :
        /\ getMinValue <= v
        /\ v <= getMaxValue
        /\ project.viewScale = "hour" => v % 5 = 0}

\* C16: updating a field twice with the same already-valid value (in range
\* and, on the hour scale, a multiple of 5) gives the same task as updating it
\* once, and the field then holds exactly that value.
C16_UpdateIdempotent ==
    \A v \in ValidValues : \A i \in 1 .. Len(tasks) : \A field \in {"start", "end"} :
        LET task == tasks[i]
            once == Spread(task, [scaleSchedule |-> newScheduleOf(task, field, v)])
            barOnce == Spread(task, [scaleSchedule |-> TaskBar_newScheduleOf(task, field, v)])
        IN /\ newScheduleOf(once, field, v) = once.scaleSchedule
           /\ getScaleValue(once, field) = v
           /\ TaskBar_newScheduleOf(barOnce, field, v) = barOnce.scaleSchedule
           /\ getScaleValue(barOnce, field) = v

\* a valid value other than the default has been typed into a field, and
\* storing it once more leaves the task as it is
C16_Witness ==
    /\ lastOp.op = "editDay"
    /\ lastOp.value \in ValidValues
    /\ lastOp.value # DEFAULT_SCALE_SCHEDULE[project.viewScale][lastOp.field]
    /\ getScaleValue(TaskById(lastOp.id), lastOp.field) = lastOp.value
    /\ newScheduleOf(TaskById(lastOp.id), lastOp.field, lastOp.value)
          = TaskById(lastOp.id).scaleSchedule

\* the interval of a task lies inside the window of the active scale
WithinBounds(task) ==
    /\ getMinValue <= getScaleValue(task, "start")
    /\ getScaleValue(task, "start") <= getScaleValue(task, "end")
    /\ getScaleValue(task, "end") <= getMaxValue

C18_OrderUnique ==
    \A i \in 1 .. Len(tasks) : \A j \in 1 .. Len(tasks) :
        (i # j /\ tasks[i].projectId = tasks[j].projectId)
            => tasks[i].order # tasks[j].order

ScheduleOps == {"editHour", "editMinute", "editDay", "handleMouseMove"}

\* a resolved interval of a task that stays in the store changes only by a
\* schedule operation on that task on the active scale
ChangedOnlyByEdit ==
    \A id \in IdsOf(tasks) \cap IdsOf(tasks') : \A s \in ViewScale :
        Resolve(TaskOf(tasks', id), s) # Resolve(TaskOf(tasks, id), s)
            => /\ lastOp'.op \in ScheduleOps
               /\ lastOp'.id = id
               /\ s = project.viewScale

\* C19 as stated: a task created by the add-task operation resolves on every
\* scale to the built-in default interval, whatever the active scale and
\* whatever tasks already exist, until it is first edited on that scale.
C19_AsStated ==
    [][/\ lastOp'.op \in {"handleAddTask", "TaskList.handleAddTask"}
          => \A s \in ViewScale :
                Resolve(TaskOf(tasks', lastOp'.id), s) = DEFAULT_SCALE_SCHEDULE[s]
       /\ ChangedOnlyByEdit]_vars

\* C19 (amended): a task created by the add-task operation resolves on every
\* scale to the built-in default interval until it is first edited on that
\* scale, except that the add-task of the chart table (ChartCalendar), used on
\* the hour scale while the project already has tasks, gives the new task the
\* hour interval [e, e + 60], e being the resolved hour end of the last task
\* in display order (540 if that end is 0).
C19_NewTaskDefaults ==
    [][/\ lastOp'.op \in {"handleAddTask", "TaskList.handleAddTask"}
          => LET chained == /\ lastOp'.op = "handleAddTask"
                            /\ project.viewScale = "hour"
                            /\ Len(projectTasks) > 0
                 e == OrDefault(Resolve(projectTasks[Len(projectTasks)], "hour").end, 540)
             IN \A s \in ViewScale :
                   Resolve(TaskOf(tasks', lastOp'.id), s) =
                       IF chained /\ s = "hour" THEN [start |-> e, end |-> e + 60]
                       ELSE DEFAULT_SCALE_SCHEDULE[s]
       /\ ChangedOnlyByEdit]_vars

\* the chart table has added a task on the hour scale after an existing one
C19_Witness ==
    /\ lastOp.op = "handleAddTask"
    /\ project.viewScale = "hour"
    /\ Len(tasks) >= 2
    /\ Resolve(TaskById(lastOp.id), "hour") = [start |-> 540, end |-> 600]
    /\ Resolve(TaskById(lastOp.id), "day") = DEFAULT_SCALE_SCHEDULE.day

\* C20: a single-field update (ResizeStart, ResizeEnd, or a direct edit of
\* start or of end) on the active scale leaves the other field of the resolved
\* interval of that scale unchanged, also when the task had no stored schedule
\* before the update.
C20_OtherFieldUnchanged ==
    [][(\/ lastOp'.op \in {"editHour", "editMinute", "editDay"}
        \/ /\ lastOp'.op = "handleMouseMove"
           /\ lastOp'.field \in {"resize-start", "resize-end"})
       => LET field == IF lastOp'.op = "handleMouseMove"
                       THEN (IF lastOp'.field = "resize-start" THEN "start" ELSE "end")
                       ELSE lastOp'.field
              other == IF field = "start" THEN "end" ELSE "start"
          IN getScaleValue(TaskOf(tasks', lastOp'.id), other)
                = getScaleValue(TaskOf(tasks, lastOp'.id), other)]_vars

\* the first operation on a new task, which has no stored schedule, has set
\* its start and the end still resolves to the default
C20_Witness ==
    /\ steps = 2
    /\ lastOp.op = "editDay"
    /\ lastOp.field = "start"
    /\ lastOp.value = 3
    /\ Resolve(TaskById(lastOp.id), "day") = [start |-> 3, end |-> 3]

-----------------------------------------------------------------------------
(* Properties of the working-day rules (checked under CalSpec) *)

\* C9: isNonWorkday is decided by first match: a custom workday is working
\* whatever else holds, otherwise a custom holiday is non-working, otherwise
\* the date is non-working exactly when (skipSaturday and Saturday) or
\* (skipSunday and Sunday) or (skipHolidays and national holiday).  With the
\* default rules New Year's Day 2024 (a Monday) is non-working and a plain
\* Tuesday without overrides is working.
C9_FirstMatchPrecedence ==
    calCall.fn = "isNonWorkday" =>
        LET d == calCall.start.day
            s == calSettings
        IN /\ d \in s.customWorkdays => calCall.result = FALSE
           /\ (d \notin s.customWorkdays /\ d \in s.customHolidays) => calCall.result = TRUE
           /\ (d \notin s.customWorkdays /\ d \notin s.customHolidays)
                 => calCall.result = (\/ s.skipSaturday /\ d % 7 = 5
                                      \/ s.skipSunday /\ d % 7 = 6
                                      \/ s.skipHolidays /\ d \in NationalHolidays)
           /\ (d = 0 /\ ~s.skipSaturday /\ s.skipSunday /\ s.skipHolidays
                 /\ s.customWorkdays = {} /\ s.customHolidays = {}) => calCall.result = TRUE
           /\ (d = 1 /\ s.customWorkdays = {} /\ s.customHolidays = {})
                 => calCall.result = FALSE

\* a date listed in both override lists has been found working
C9_Witness ==
    /\ calCall.fn = "isNonWorkday"
    /\ calCall.start.day \in calSettings.customWorkdays \cap calSettings.customHolidays
    /\ calCall.result = FALSE

\* C10: countWorkdays(start, end, rules) is the number of calendar days d from
\* the day of start to the day of end, both included, that are not non-working;
\* a Monday-to-Sunday week with only Sunday non-working counts 6.
C10_CountsInclusiveRange ==
    calCall.fn = "countWorkdays" =>
        /\ calCall.result =
              Cardinality({d \in Days : /\ calCall.start.day <= d
                                        /\ d <= calCall.end.day
                                        /\ ~isNonWorkday([day |-> d, tod |-> 0], calSettings)})
        /\ (/\ calCall.start.day = 0
            /\ calCall.end.day = 6
            /\ calSettings = [skipSaturday |-> FALSE, skipSunday |-> TRUE,
                              skipHolidays |-> FALSE, customHolidays |-> {},
                              customWorkdays |-> {}])
              => calCall.result = 6

\* the Monday-to-Sunday week with only Sunday non-working has been counted
C10_Witness ==
    /\ calCall.fn = "countWorkdays"
    /\ calCall.start.day = 0
    /\ calCall.end.day = 6
    /\ calSettings.skipSunday
    /\ ~calSettings.skipSaturday
    /\ ~calSettings.skipHolidays
    /\ calSettings.customHolidays = {}
    /\ calSettings.customWorkdays = {}
    /\ calCall.result = 6

\* C11: addWorkdays(start, n, rules) returns start unchanged for n = 0, whether
\* or not start is a working day, and for n >= 1 returns start moved to the
\* first later day at which the number of working days after start reaches n,
\* so the result is a working day strictly after start.
C11_AddWorkdays ==
    calCall.fn = "addWorkdays" =>
        LET start == calCall.start
            n == calCall.workdays
            result == calCall.result
            working(d) == ~isNonWorkday([day |-> d, tod |-> 0], calSettings)
            reached(d) == Cardinality({x \in (start.day + 1) .. d : working(x)})
        IN /\ n = 0 => result = start
           /\ n >= 1 => /\ result.tod = start.tod
                        /\ result.day > start.day
                        /\ working(result.day)
                        /\ reached(result.day) = n
                        /\ \A d \in (start.day + 1) .. (result.day - 1) : reached(d) < n

\* working days have been added to a non-working start and a non-working day
\* has been stepped over
C11_Witness ==
    /\ calCall.fn = "addWorkdays"
    /\ calCall.workdays >= 2
    /\ isNonWorkday(calCall.start, calSettings)
    /\ calCall.result.day - calCall.start.day > calCall.workdays
    /\ ~isNonWorkday(calCall.result, calSettings)

-----------------------------------------------------------------------------
(* Properties of getScaleValue (checked under ScheduleSpec) *)

\* C14: resolving a task on a scale returns the stored start and end of that
\* scale when the entry is present, and the built-in default interval of the
\* scale when the task has no schedule or the entry of the scale is missing or
\* malformed (null, or a field missing).
C14_ResolveDefaults ==
    calCall.fn = "getScaleValue" =>
        LET task == tasks[1]
            scale == project.viewScale
            present == /\ "scaleSchedule" \in DOMAIN task
                       /\ HasField(task.scaleSchedule, scale, "start")
                       /\ HasField(task.scaleSchedule, scale, "end")
        IN calCall.result = IF present
                            THEN [start |-> task.scaleSchedule[scale].start,
                                  end   |-> task.scaleSchedule[scale].end]
                            ELSE DEFAULT_SCALE_SCHEDULE[scale]

\* the loop of addWorkdays taken one pass at a time, for every rule set and
\* start date of the bounds; the running loop always takes its next step
WorkdayLoopInit ==
    /\ project = [id |-> "p1", viewScale |-> "day"]
    /\ projects = <<project>>
    /\ tasks = <<>>
    /\ nextId = 0
    /\ isDragging = FALSE
    /\ dragType = NoDragType
    /\ dragStartValues = null
    /\ dragTaskId = 0
    /\ lastOp = Op("init", 0, "none", 0)
    /\ steps = 0
    /\ calSettings \in LoopSettings
    /\ calCall = NoCall

WorkdayLoopSpec ==
    WorkdayLoopInit /\ [][WorkdayLoopNext]_vars /\ WF_vars(addWorkdays_Loop)

-----------------------------------------------------------------------------
(* Properties of the grid generators (C12 under HourGridSpec, C13 under    *)
(* GridSpec)                                                               *)

\* C12: for every hour window with startHour < endHour the hour grid is exactly
\* the minute values startHour*60, startHour*60 + 5, ..., endHour*60, so its
\* length is (endHour - startHour) * 12 + 1; the window 8..18 gives 121 entries,
\* the first 480 and the last 1080.
C12_HourGrid ==
    (/\ calCall.fn = "timeSlots"
     /\ calCall.done
     /\ hourSettings.startHour < hourSettings.endHour) =>
        LET n == (hourSettings.endHour - hourSettings.startHour) * 12 + 1
        IN /\ calCall.slots = [i \in 1 .. n |-> hourSettings.startHour * 60 + 5 * (i - 1)]
           /\ Len(calCall.slots) = n
           /\ calCall.slots[n] = hourSettings.endHour * 60
           /\ (hourSettings.startHour = 8 /\ hourSettings.endHour = 18)
                 => /\ Len(calCall.slots) = 121
                    /\ calCall.slots[1] = 480
                    /\ calCall.slots[121] = 1080

\* the grid of a stored window 8..18 has been generated
C12_Witness ==
    /\ calCall.fn = "timeSlots"
    /\ calCall.done
    /\ "hourScaleSettings" \in DOMAIN project
    /\ hourSettings = [startHour |-> 8, endHour |-> 18]
    /\ Len(calCall.slots) = 121

\* C13: on the day, week and month scales the generated grid is exactly the
\* windowLength consecutive calendar dates anchor, anchor + 1 day, ...,
\* anchor + (windowLength - 1) days, windowLength being the window field of
\* that scale; every scale steps by one day.
C13_DayGrid ==
    (calCall.fn \in {"dates", "generateDateRange"} /\ project.viewScale # "hour") =>
        calCall.result = [i \in 1 .. windowLength |->
                             [day |-> project.startDate + i - 1, tod |-> 0]]

-----------------------------------------------------------------------------
(* Properties of the month grouping (checked under MonthGroupSpec) *)

RECURSIVE Expand(_)
\* a group sequence written out: count copies of each label, in order
Expand(groups) ==
    IF groups = <<>> THEN <<>>
    ELSE [i \in 1 .. groups[1].count |-> groups[1].month] \o Expand(Tail(groups))

RECURSIVE SumOfCounts(_)
SumOfCounts(groups) ==
    IF groups = <<>> THEN 0 ELSE groups[1].count + SumOfCounts(Tail(groups))

\* groups is the run-length encoding by calendar month of the sequence ds
RunLengthEncodes(groups, ds) ==
    /\ Expand(groups) = [i \in 1 .. Len(ds) |-> formatMonth(ds[i])]
    /\ \A g \in 1 .. Len(groups) : groups[g].count >= 1
    /\ \A g \in 1 .. Len(groups) - 1 : groups[g].month # groups[g + 1].month
    /\ SumOfCounts(groups) = Len(ds)

MonthGroupCalls == {"monthGroups", "PrintPreview.monthGroups"}

\* C23 as stated: the groups are the run-length encoding of the date sequence
\* by calendar month, and the result is empty when the scale is Hour or the
\* project is provisional.
C23_AsStated ==
    calCall.fn \in MonthGroupCalls =>
        IF project.viewScale = "hour" \/ project.isProvisional
        THEN calCall.result = <<>>
        ELSE RunLengthEncodes(calCall.result, dates)

\* C23: the groups are the run-length encoding of the date sequence by
\* calendar month (in sequence order, adjacent labels different, every count
\* >= 1, counts summing to the length) and empty on the hour scale; for a
\* provisional project the result of PrintPreview is empty, that of
\* ChartCalendar is still the run-length encoding.
C23_MonthGroups ==
    calCall.fn \in MonthGroupCalls =>
        IF project.viewScale = "hour"
              \/ (project.isProvisional /\ calCall.fn = "PrintPreview.monthGroups")
        THEN calCall.result = <<>>
        ELSE RunLengthEncodes(calCall.result, dates)

\* the window of a provisional project crosses two month boundaries and the
\* chart still groups it
C23_Witness ==
    /\ calCall.fn = "monthGroups"
    /\ project.isProvisional
    /\ Len(calCall.result) = 3
    /\ calCall.result[2] = [month |-> 2, count |-> 29]

-----------------------------------------------------------------------------
(* Properties of the store (checked under StoreSpec) *)

\* the ids of a task sequence, in sequence order
IdSeq(ts) == [i \in 1 .. Len(ts) |-> ts[i].id]

\* position of an id in a sequence of ids, counted from 1
PositionOf(ids, id) == CHOOSE k \in 1 .. Len(ids) : ids[k] = id

\* C25: dropping one task onto another leaves the project's tasks with exactly
\* the orders 0..n-1 in the new sequence, the dragged task at the target's
\* former position and all other tasks in their former relative order;
\* reorderTasks(projectId, taskIds) gives each listed task of that project its
\* index in taskIds (and changes nothing else).
C25_ReorderDense ==
    [][/\ lastOp'.op = "handleDrop" =>
             LET before == IdSeq(projectTasks)
                 after == IdSeq(projectTasks')
                 dragged == lastOp'.id
                 target == lastOp'.value
             IN /\ \A k \in 1 .. Len(projectTasks') : projectTasks'[k].order = k - 1
                /\ Len(after) = Len(before)
                /\ PositionOf(after, dragged) = PositionOf(before, target)
                /\ SelectSeq(after, LAMBDA id : id # dragged)
                      = SelectSeq(before, LAMBDA id : id # dragged)
                /\ \A i \in 1 .. Len(tasks) :
                      tasks'[i] = Spread(tasks[i], [order |-> tasks'[i].order])
       /\ lastOp'.op = "reorderTasks" =>
             LET projectId == lastOp'.id
                 taskIds == lastOp'.value
             IN /\ Len(tasks') = Len(tasks)
                /\ \A i \in 1 .. Len(tasks) :
                      IF /\ tasks[i].projectId = projectId
                         /\ \E k \in 1 .. Len(taskIds) : taskIds[k] = tasks[i].id
                      THEN tasks'[i] = Spread(tasks[i],
                                [order |-> PositionOf(taskIds, tasks[i].id) - 1])
                      ELSE tasks'[i] = tasks[i]]_vars

\* the first of three tasks has been dropped onto the last one
C25_Witness ==
    /\ lastOp.op = "handleDrop"
    /\ Len(projectTasks) = 3
    /\ IdSeq(projectTasks) = <<3, 4, 2>>
    /\ \A k \in 1 .. 3 : projectTasks[k].order = k - 1

\* C27: after any sequence of addProject, addTask for an existing project,
\* updateTask, deleteTask and deleteProject every stored task's projectId
\* refers to a project that still exists; deleteProject(id) removes every
\* task of project id and no task of any other project.
C27_TasksHaveProjects ==
    [][/\ \A i \in 1 .. Len(tasks') : tasks'[i].projectId \in ProjectIds'
       /\ lastOp'.op = "deleteProject" =>
             /\ tasks' = SelectSeq(tasks, LAMBDA t : t.projectId # lastOp'.id)
             /\ lastOp'.id \notin ProjectIds']_vars

\* one of two projects has been deleted with its task; the task of the other
\* project is still stored
C27_Witness ==
    /\ lastOp.op = "deleteProject"
    /\ nextId = 4
    /\ Len(projects) = 1
    /\ Len(tasks) = 1
    /\ tasks[1].projectId \in ProjectIds

\* C26: an update emitted by a gesture or a field edit on one task leaves
\* every other task, of any project, and every project record unchanged.
C26_SingleWriter ==
    [][lastOp'.op \in ScheduleOps =>
          /\ Len(tasks') = Len(tasks)
          /\ \A i \in 1 .. Len(tasks) :
                /\ tasks'[i].id = tasks[i].id
                /\ tasks'[i].projectId = tasks[i].projectId
                /\ tasks[i].id # lastOp'.id => tasks'[i] = tasks[i]
          /\ project' = project
          /\ projects' = projects]_vars

\* a field edit has changed a task while the store holds a second project
\* with a task of its own
C26_Witness ==
    /\ lastOp.op = "editDay"
    /\ Len(projects) = 2
    /\ "scaleSchedule" \in DOMAIN TaskById(lastOp.id)
    /\ \E i \in 1 .. Len(tasks) :
          /\ tasks[i].projectId # project.id
          /\ "scaleSchedule" \notin DOMAIN tasks[i]

-----------------------------------------------------------------------------
(* Termination of addWorkdays (C30 under WorkdayLoopSpec)                  *)

\* C30: addWorkdays(start, n, rules) terminates for every start, every n >= 0
\* and every rules with finite override lists: every call that has been
\* entered returns.
C30_AddWorkdaysTerminates ==
    (calCall.fn = "addWorkdays") ~> (calCall.fn = "addWorkdays" /\ calCall.done)

\* the loop has returned after passing a weekend and a run of custom holidays
\* longer than a week, with the date the function computes
C30_Witness ==
    /\ calCall.fn = "addWorkdays"
    /\ calCall.done
    /\ calCall.workdays = MaxWorkdays
    /\ calCall.count = calCall.workdays
    /\ calSettings.skipSaturday /\ calSettings.skipSunday
    /\ Cardinality(calSettings.customHolidays) > 7
    /\ calCall.current.day - calCall.start.day > MaxWorkdays + 7
    /\ calCall.current = addWorkdays(calCall.start, calCall.workdays, calSettings)

=============================================================================
